---- MODULE Spec2Model ----
(***************************************************************************)
(* PickleCache (flexp/flow/cache.py): a file cache in front of a chain of  *)
(* processing units.  The model covers the chain fingerprint               *)
(* (_object_dump_to_string, _get_chain_hash, hash_chain), the cache key    *)
(* (get_cache_file) and the hit / miss / corruption protocol of process,   *)
(* one action per file-system operation so that several engines sharing    *)
(* one directory can interleave.                                           *)
(***************************************************************************)
EXTENDS Integers, Sequences, FiniteSets, TLC

(***************************************************************************)
(* Bounds of the model.                                                    *)
(***************************************************************************)
NumIds == 1            \* identity values 1..NumIds a record may carry
DeepNesting == 9       \* deepest list nesting of a unit attribute's value
MaxUnits == 2          \* longest chain that appending units builds
EditTime == 9          \* the modification time an edited source file gets

(***************************************************************************)
(* Program constants.                                                      *)
(***************************************************************************)
max_recursion_level == 10     \* default of PickleCache.__init__

Procs == {1, 2}    \* the engines (one per OS process) sharing the directory
Ids == 1..NumIds
None == <<"None", <<>>>>

(***************************************************************************)
(* Python values met by the structural dump.  A string is a sequence of    *)
(* one-character strings, so that concatenation works on characters.       *)
(***************************************************************************)
PyInt(n) == <<"int", n>>
PyStr(chars) == <<"str", chars>>
PyList(elems) == <<"list", elems>>
PyObj(cls, attrs) == <<"obj", cls, attrs>>   \* attrs: <<name, value>> in dict order
PySet(order) == <<"set", order>>   \* the elements in the set's iteration order
PyRef(n) == <<"ref", n>>           \* a reference to the object n of the heap

Kind(v) == v[1]

\* ord() of the characters the model's names use
Code ==
  [a |-> 97, b |-> 98, c |-> 99, d |-> 100, e |-> 101, f |-> 102, g |-> 103,
   h |-> 104, i |-> 105, j |-> 106, k |-> 107, l |-> 108, m |-> 109,
   n |-> 110, o |-> 111, p |-> 112, q |-> 113, r |-> 114, s |-> 115,
   t |-> 116, u |-> 117, v |-> 118, w |-> 119, x |-> 120, y |-> 121,
   z |-> 122, D |-> 68, H |-> 72, L |-> 76, M |-> 77, N |-> 78, P |-> 80]
  @@ ("0" :> 48) @@ ("1" :> 49) @@ ("2" :> 50) @@ ("3" :> 51) @@ ("4" :> 52)
  @@ ("5" :> 53) @@ ("6" :> 54) @@ ("7" :> 55) @@ ("8" :> 56) @@ ("9" :> 57)

\* str.encode("ASCII"): the byte values of a string
Encode(chars) == [j \in DOMAIN chars |-> Code[chars[j]]]

\* str(i) for a list index: the decimal digits of i
DigitChar == <<"0", "1", "2", "3", "4", "5", "6", "7", "8", "9">>
RECURSIVE str(_)
str(n) ==
  IF n < 10 THEN <<DigitChar[n + 1]>>
  ELSE str(n \div 10) \o <<DigitChar[(n % 10) + 1]>>

(***************************************************************************)
(* The serialization codec.  A pickle of a value is self-delimiting and    *)
(* loads back to the value, so the pickle of an integer is one token that  *)
(* no character byte equals; a pickled object on disk is a one-element     *)
(* byte stream and a file truncated to zero bytes is the empty stream.     *)
(***************************************************************************)
pickle(v) == <<1000 + v[2]>>

pickle_dump(obj) == <<obj>>
EOFError(bytes) == bytes = <<>>
pickle_load(bytes) == Head(bytes)

\* hashlib.sha256(...).hexdigest(): collision-free on the model's inputs
sha256(bytes) == <<"sha256", bytes>>

(***************************************************************************)
(* sorted(items) on (name, value) pairs with distinct names: ascending     *)
(* byte order of the names.                                                *)
(***************************************************************************)
RECURSIVE BytesLess(_, _)
BytesLess(s, t) ==
  IF s = <<>> THEN t # <<>>
  ELSE IF t = <<>> THEN FALSE
  ELSE IF Head(s) # Head(t) THEN Head(s) < Head(t)
  ELSE BytesLess(Tail(s), Tail(t))

RECURSIVE Insert(_, _)
Insert(item, items) ==
  IF items = <<>> THEN <<item>>
  ELSE IF BytesLess(Encode(item[1]), Encode(Head(items)[1]))
       THEN <<item>> \o items
       ELSE <<Head(items)>> \o Insert(item, Tail(items))

RECURSIVE sorted(_)
sorted(items) ==
  IF items = <<>> THEN <<>> ELSE Insert(Head(items), sorted(Tail(items)))

(***************************************************************************)
(* _object_dump_to_string.  Raises(obj) is the case in which the call      *)
(* itself raises (an object with neither attributes, items nor iteration:  *)
(* an integer), which the caller answers with pickle(obj).                 *)
(***************************************************************************)
Raises(obj) == Kind(obj) = "int"

ClassName(obj) ==
  CASE Kind(obj) = "int" -> <<"i", "n", "t">>
    [] Kind(obj) = "str" -> <<"s", "t", "r">>
    [] Kind(obj) = "list" -> <<"l", "i", "s", "t">>
    [] Kind(obj) = "set" -> <<"s", "e", "t">>
    [] Kind(obj) = "obj" -> obj[2]

\* lines 133-143: the (attribute, value) pairs of an object that is no
\* string: sorted(vars(obj).items()) for an object with attributes; a list
\* and a set have neither attributes nor items() and are enumerated, the
\* list in the order of its indices, the set in its iteration order
Items(obj) ==
  CASE Kind(obj) = "obj" ->
         sorted(obj[3])
    [] Kind(obj) \in {"list", "set"} ->
         [j \in DOMAIN obj[2] |-> <<str(j - 1), obj[2][j]>>]

\* an object graph with a cycle: the object Loop(n) holds itself in its
\* attribute "me"; the value of the attribute is a reference, which the
\* heap resolves to the object
Loop(n) ==
  PyObj(<<"L", "o", "o", "p">>,
        << <<<<"m", "e">>, PyRef(n)>>, <<<<"v">>, PyInt(n)>> >>)
Heap(ref) == Loop(ref[2])
Resolve(v) == IF Kind(v) = "ref" THEN Heap(v) ELSE v

RECURSIVE _object_dump_to_string(_, _)
RECURSIVE DumpItems(_, _)
RECURSIVE DumpPart(_, _)

\* DumpPart that falls back on pickle before the depth is looked at
DumpPartPickling(obj, level) ==
  IF Raises(obj) THEN pickle(obj)
  ELSE _object_dump_to_string(obj, level)

\* lines 146-160: try the structural dump, fall back on pickle
DumpPart(obj, level) ==
  IF level > max_recursion_level THEN <<>>
  ELSE IF Raises(obj) THEN pickle(obj)
  ELSE _object_dump_to_string(obj, level)

\* lines 145-160: the loop over the items, for an object at `level`
DumpItems(items, level) ==
  IF items = <<>> THEN <<>>
  ELSE LET attribute == PyStr(Head(items)[1])
           value == Resolve(Head(items)[2])
       IN  DumpPart(attribute, level + 1)
             \o DumpPart(value, level + 1)
             \o DumpItems(Tail(items), level)

_object_dump_to_string(obj, level) ==
  IF level > max_recursion_level THEN <<>>
  ELSE IF Kind(obj) = "str" THEN Encode(ClassName(obj)) \o Encode(obj[2])
  ELSE Encode(ClassName(obj)) \o DumpItems(Items(obj), level)

\* the chain is the list of the engine's modules
_get_chain_hash(chain) == sha256(_object_dump_to_string(PyList(chain), 0))

(***************************************************************************)
(* The processing units of the model's chains.  Put stores the integer     *)
(* leaf of its attribute v in the record field "out", Drop removes the     *)
(* field "x", Halt signals early termination (StopIteration), Need raises  *)
(* an error on a record without the field "x", Mark stores the number of   *)
(* elements of its attribute s, a set, in the field "x", Loop (above)      *)
(* stores its attribute v in the field "out".                              *)
(***************************************************************************)
RECURSIVE Nest(_, _)
Nest(k, leaf) == IF k = 0 THEN leaf ELSE PyList(<<Nest(k - 1, leaf)>>)

RECURSIVE Leaf(_)
Leaf(v) == IF Kind(v) = "int" THEN v[2] ELSE Leaf(v[2][1])

Put(k, n) ==
  PyObj(<<"P", "u", "t">>,
        << <<<<"v">>, Nest(k, PyInt(n))>>,
           <<<<"f">>, PyStr(<<"o", "u", "t">>)>> >>)
Drop == PyObj(<<"D", "r", "o", "p">>, << <<<<"f">>, PyStr(<<"x">>)>> >>)
Halt == PyObj(<<"H", "a", "l", "t">>, <<>>)
Need == PyObj(<<"N", "e", "e", "d">>, << <<<<"f">>, PyStr(<<"x">>)>> >>)
Mark(order) ==
  PyObj(<<"M", "a", "r", "k">>,
        << <<<<"s">>, PySet([j \in DOMAIN order |-> PyInt(order[j])])>> >>)

\* the iteration orders of the set {1, 9}: both values hash to one slot of
\* the set's table, so the order is the order in which they were inserted
SetOrders == {<<1, 9>>, <<9, 1>>}

\* a leaf nested k lists deep in an attribute's value lies at level k + 2
Nestings == {0, DeepNesting - 1, DeepNesting}

Chains ==
  {<<>>, <<Drop>>, <<Need>>}
    \cup {<<Put(k, n)>> : k \in Nestings, n \in {1, 2}}
    \cup {<<Put(0, 1), Halt>>}
    \cup {<<Mark(order)>> : order \in SetOrders}
    \cup {<<Loop(1)>>}

\* a Python value up to what no program can tell apart: the order of the
\* attributes in an object's dictionary and of the elements in a set's table
RECURSIVE Canon(_)
Canon(v) ==
  CASE Kind(v) = "list" -> PyList([j \in DOMAIN v[2] |-> Canon(v[2][j])])
    [] Kind(v) = "set" -> PySet({Canon(v[2][j]) : j \in DOMAIN v[2]})
    [] Kind(v) = "obj" ->
         PyObj(v[2], {<<v[3][j][1], Canon(v[3][j][2])>> : j \in DOMAIN v[3]})
    [] OTHER -> v

\* two chains whose units are in the same state
SameState(c1, c2) == Canon(PyList(c1)) = Canon(PyList(c2))

\* two chains that are equal but for the value of one attribute of one unit
OneAttributeApart(c1, c2) ==
  /\ Len(c1) = Len(c2)
  /\ \E j \in DOMAIN c1 :
       /\ \A h \in DOMAIN c1 \ {j} : c1[h] = c2[h]
       /\ c1[j][2] = c2[j][2]
       /\ Len(c1[j][3]) = Len(c2[j][3])
       /\ \E a \in DOMAIN c1[j][3] :
            /\ \A b \in DOMAIN c1[j][3] \ {a} : c1[j][3][b] = c2[j][3][b]
            /\ c1[j][3][a][1] = c2[j][3][a][1]
            /\ c1[j][3][a][2] # c2[j][3][a][2]

\* the recursion level of the integer in which v1 and v2 differ, v1 being at
\* `level`; -1 when they differ in more than one integer, or not at all
RECURSIVE LeafLevel(_, _, _)
LeafLevel(v1, v2, level) ==
  IF Kind(v1) # Kind(v2) THEN -1
  ELSE IF Kind(v1) = "int" THEN (IF v1[2] # v2[2] THEN level ELSE -1)
  ELSE IF Kind(v1) = "list" /\ Len(v1[2]) = Len(v2[2])
          /\ Cardinality({j \in DOMAIN v1[2] : v1[2][j] # v2[2][j]}) = 1
  THEN LET j == CHOOSE j \in DOMAIN v1[2] : v1[2][j] # v2[2][j]
       IN  LeafLevel(v1[2][j], v2[2][j], level + 1)
  ELSE -1

\* the same for two chains one attribute apart: the chain is at level 0,
\* its units at level 1, their attributes' values at level 2
ChainLeafLevel(c1, c2) ==
  IF OneAttributeApart(c1, c2)
  THEN LET j == CHOOSE j \in DOMAIN c1 : c1[j] # c2[j]
           a == CHOOSE a \in DOMAIN c1[j][3] : c1[j][3][a] # c2[j][3][a]
       IN  LeafLevel(c1[j][3][a][2], c2[j][3][a][2], 2)
  ELSE -1

\* the engines that share the directory run one chain, or two variants of
\* it that differ in one integer of one attribute
EngineChains ==
  {m \in [Procs -> Chains] :
     \/ m[1] = m[2]
     \/ ChainLeafLevel(m[1], m[2]) >= 0
     \/ SameState(m[1], m[2])}

\* the value of attribute `name` of a unit
Attr(unit, name) ==
  LET j == CHOOSE j \in DOMAIN unit[3] : unit[3][j][1] = name IN unit[3][j][2]

(***************************************************************************)
(* Records: functions from field names to integers.                        *)
(***************************************************************************)
data_key == "id"

Records ==
  {[f \in {data_key} |-> d] : d \in Ids}
    \cup {[f \in {data_key, "x"} |-> IF f = "x" THEN 0 ELSE d] : d \in Ids}
    \cup {[f \in {"x"} |-> 0]}

Without(rec, field) == [f \in DOMAIN rec \ {field} |-> rec[f]]
With(rec, field, val) ==
  [f \in DOMAIN rec \cup {field} |-> IF f = field THEN val ELSE rec[f]]

\* Merge that keeps the record's value of a field the record already has
MergeKeepsOwn(rec, retrieved_data) ==
  [f \in DOMAIN rec \cup DOMAIN retrieved_data |->
     IF f \in DOMAIN rec THEN rec[f] ELSE retrieved_data[f]]

\* Merge that replaces the record's contents by the cached ones
MergeReplaces(rec, retrieved_data) == retrieved_data

\* lines 303-304: for key, value in retrieved_data.items(): data[key] = value
Merge(rec, retrieved_data) ==
  [f \in DOMAIN rec \cup DOMAIN retrieved_data |->
     IF f \in DOMAIN retrieved_data THEN retrieved_data[f] ELSE rec[f]]

(***************************************************************************)
(* The wrapped pipeline, Chain.process: the units run in order on the      *)
(* shared record; a unit's StopIteration or error ends the run and keeps   *)
(* what earlier units did to the record.                                   *)
(***************************************************************************)
RECURSIVE ChainProcess(_, _)
ChainProcess(chain, rec) ==
  IF chain = <<>> THEN [data |-> rec, outcome |-> "ok"]
  ELSE LET unit == Head(chain)
           cls == unit[2]
       IN  CASE cls = Halt[2] -> [data |-> rec, outcome |-> "stop"]
             [] cls = Need[2] ->
                  IF "x" \in DOMAIN rec
                  THEN ChainProcess(Tail(chain), rec)
                  ELSE [data |-> rec, outcome |-> "error"]
             [] cls = Drop[2] ->
                  ChainProcess(Tail(chain), Without(rec, "x"))
             [] cls = Mark(<<>>)[2] ->
                  ChainProcess(Tail(chain),
                               With(rec, "x", Len(Attr(unit, <<"s">>)[2])))
             [] OTHER ->
                  ChainProcess(Tail(chain),
                               With(rec, "out", Leaf(Attr(unit, <<"v">>))))

(***************************************************************************)
(* The fingerprint: chain_info and hash_chain.                             *)
(***************************************************************************)
\* the classes of the units
Classes == {Put(0, 0)[2], Drop[2], Halt[2], Need[2], Mark(<<>>)[2], Loop(0)[2]}

\* the modification time of each class's source file when the model starts
FirstMtime(cls) ==
  CASE cls = Put(0, 0)[2] -> 3
    [] cls = Drop[2] -> 2
    [] cls = Halt[2] -> 5
    [] OTHER -> 1

\* the file system outside the cache directory: the modification time of
\* the source file of every class
VARIABLE source_mtime

\* os.path.getmtime of the source file of a unit's class
SourceMtime(cls) == source_mtime[cls]

RECURSIVE _get_chain_mtime(_)
_get_chain_mtime(chain) ==
  IF chain = <<>> THEN 0
  ELSE LET rest == _get_chain_mtime(Tail(chain))
           mine == SourceMtime(Head(chain)[2])
       IN  IF mine > rest THEN mine ELSE rest

\* str(module.__class__) and repr(vars(module)) of every module
_get_chain_repr(chain) == [j \in DOMAIN chain |-> <<chain[j][2], chain[j][3]>>]

NoChainInfo ==
  [chain_len |-> 0, chain_hash |-> None, chain_mtime |-> 0, chain_repr |-> <<>>]

\* hash_chain that computes the fingerprint anew at every call
hash_chain_always(modules_, info) ==
  [chain_len |-> Len(modules_),
   chain_mtime |-> _get_chain_mtime(modules_),
   chain_hash |-> _get_chain_hash(modules_),
   chain_repr |-> _get_chain_repr(modules_)]

\* lines 259-267
hash_chain(modules_, info) ==
  IF Len(modules_) # info.chain_len
  THEN [chain_len |-> Len(modules_),
        chain_mtime |-> _get_chain_mtime(modules_),
        chain_hash |-> _get_chain_hash(modules_),
        chain_repr |-> _get_chain_repr(modules_)]
  ELSE info

\* PickleCache.__init__ with the given chain
NewChainInfo(chain) == hash_chain(chain, NoChainInfo)

\* get_cache_file without the chain's hash
get_cache_file_of_id(rec, info) ==
  <<sha256(pickle(PyInt(rec[data_key]))), sha256(<<>>)>>

\* lines 106-109, for a record that carries data_key and a chain_hash that
\* is a digest: the path below the directory
get_cache_file(rec, info) ==
  <<sha256(pickle(PyInt(rec[data_key]))), info.chain_hash>>

(***************************************************************************)
(* State.                                                                  *)
(*   files       the cache directory: path -> bytes of the file            *)
(*   force, modules, chain_info                                            *)
(*               the engine of each process                                *)
(*   gc_enabled  whether the process's garbage collector is enabled        *)
(*   pc          where each process is in its process call                 *)
(*   data        the caller's record, mutated in place                     *)
(*   loc         the locals of the call (file, stop, cache) and a record   *)
(*               of what the call has done so far                          *)
(*   memo        for every path that holds an entry, the call that wrote   *)
(*               the entry                                                 *)
(*   source_mtime (declared above) the source files' modification times    *)
(***************************************************************************)
VARIABLES files, force, modules, chain_info, gc_enabled, pc, data, loc, memo

vars ==
  <<files, force, source_mtime, modules, chain_info, gc_enabled, pc, data, loc,
    memo>>

NoEntry == [data |-> <<>>, stopped |-> FALSE, chain_repr |-> <<>>, chain_mtime |-> 0]

IdleLoc ==
  [file |-> <<>>, input |-> <<>>, existed |-> FALSE, before |-> <<>>,
   read |-> FALSE, eof |-> FALSE, deleted |-> FALSE, invoked |-> FALSE,
   wrote |-> FALSE, outcome |-> "none", stop |-> FALSE, cache |-> NoEntry,
   result |-> "none"]

Init ==
  /\ files = <<>>
  /\ force \in [Procs -> BOOLEAN]
  /\ source_mtime = [cls \in Classes |-> FirstMtime(cls)]
  /\ modules \in EngineChains
  /\ chain_info = [p \in Procs |-> NewChainInfo(modules[p])]
  /\ gc_enabled = [p \in Procs |-> TRUE]
  /\ pc = [p \in Procs |-> "idle"]
  /\ data = [p \in Procs |-> <<>>]
  /\ loc = [p \in Procs |-> IdleLoc]
  /\ memo = <<>>

\* the call of p ends: it returns, or raises `result` to its caller
End(p, l, result) ==
  /\ pc' = [pc EXCEPT ![p] = "done"]
  /\ loc' = [loc EXCEPT ![p] = [l EXCEPT !.result = result]]

\* UseCache with the force flag read the wrong way round
UseCacheInverted(exists, force_) == exists /\ force_

\* UseCache without the force flag
UseCacheAlways(exists, force_) == exists

\* lines 282-285: whether the entry found is read
UseCache(exists, force_) == exists /\ ~force_

\* KeyFailure that meets the missing hash before the missing field
KeyFailureHashFirst(rec, info) ==
  IF info.chain_hash = None THEN "TypeError"
  ELSE IF data_key \notin DOMAIN rec THEN "KeyError"
  ELSE "none"

\* lines 107-109: what get_cache_file raises; data[self.data_key] is read
\* first, then the path is concatenated with chain_hash, which is None as
\* long as no fingerprint was computed
KeyFailure(rec, info) ==
  IF data_key \notin DOMAIN rec THEN "KeyError"
  ELSE IF info.chain_hash = None THEN "TypeError"
  ELSE "none"

\* lines 280-285: the key, the existence check, the force flag
process_begin(p, rec) ==
  /\ pc[p] = "idle"
  /\ data' = [data EXCEPT ![p] = rec]
  /\ UNCHANGED <<files, force, source_mtime, modules, chain_info, gc_enabled, memo>>
  /\ LET l0 == [IdleLoc EXCEPT !.input = rec]
     IN  IF KeyFailure(rec, chain_info[p]) # "none"
         THEN End(p, l0, KeyFailure(rec, chain_info[p]))
         ELSE LET file == get_cache_file(rec, chain_info[p])
                  exists == file \in DOMAIN files
                  l1 == [l0 EXCEPT !.file = file, !.existed = exists,
                                   !.before = IF exists THEN files[file] ELSE <<>>]
              IN  /\ pc' = [pc EXCEPT ![p] =
                              IF UseCache(exists, force[p]) THEN "read" ELSE "run"]
                  /\ loc' = [loc EXCEPT ![p] = l1]

\* lines 291-295: the collector after the load; gc.enable() follows
\* pickle.load inside the try block, so a load that raises skips it
GcAfterLoad(raised) == ~raised

\* Handles with no except clause
HandlesNothing(error) == FALSE

\* line 306: the errors of the read that the except clause catches
Handles(error) == error = "EOFError"

\* HitResult without the replay of a stopped entry
HitResultNoReplay(stopped) == "returned"

\* lines 298-300: a stopped entry replays the early termination
HitResult(stopped) == IF stopped THEN "StopIteration" ELSE "returned"

\* process_read that takes an entry written under another modification
\* time of the chain's sources for a miss
process_read_invalidating(p) ==
  /\ pc[p] = "read"
  /\ UNCHANGED <<files, force, source_mtime, modules, chain_info, memo>>
  /\ LET file == loc[p].file
         l1 == [loc[p] EXCEPT !.read = TRUE]
     IN  IF file \notin DOMAIN files
         THEN /\ End(p, l1, "FileNotFoundError")
              /\ UNCHANGED <<gc_enabled, data>>
         ELSE IF EOFError(files[file])
         THEN /\ gc_enabled' = [gc_enabled EXCEPT ![p] = FALSE]
              /\ pc' = [pc EXCEPT ![p] = "unlink"]
              /\ loc' = [loc EXCEPT ![p] = [l1 EXCEPT !.eof = TRUE]]
              /\ UNCHANGED data
         ELSE LET cache == pickle_load(files[file])
              IN  /\ gc_enabled' = [gc_enabled EXCEPT ![p] = TRUE]
                  /\ IF cache.chain_mtime # chain_info[p].chain_mtime
                     THEN /\ pc' = [pc EXCEPT ![p] = "run"]
                          /\ loc' = [loc EXCEPT ![p] = l1]
                          /\ UNCHANGED data
                     ELSE /\ End(p, l1, HitResult(cache.stopped))
                          /\ IF cache.stopped
                             THEN UNCHANGED data
                             ELSE data' = [data EXCEPT ![p] =
                                             Merge(data[p], cache.data)]

\* lines 286-308: open, load, then replay the stop, or merge; EOFError is
\* caught and leads to the unlink
process_read(p) ==
  /\ pc[p] = "read"
  /\ UNCHANGED <<files, force, source_mtime, modules, chain_info, memo>>
  /\ LET file == loc[p].file
         l1 == [loc[p] EXCEPT !.read = TRUE]
     IN  IF file \notin DOMAIN files
         THEN /\ IF Handles("FileNotFoundError")
                 THEN /\ pc' = [pc EXCEPT ![p] = "unlink"]
                      /\ loc' = [loc EXCEPT ![p] = l1]
                 ELSE End(p, l1, "FileNotFoundError")
              /\ UNCHANGED <<gc_enabled, data>>
         ELSE IF EOFError(files[file])
         THEN /\ gc_enabled' = [gc_enabled EXCEPT ![p] = GcAfterLoad(TRUE)]
              /\ IF Handles("EOFError")
                 THEN /\ pc' = [pc EXCEPT ![p] = "unlink"]
                      /\ loc' = [loc EXCEPT ![p] = [l1 EXCEPT !.eof = TRUE]]
                 ELSE End(p, [l1 EXCEPT !.eof = TRUE], "EOFError")
              /\ UNCHANGED data
         ELSE LET cache == pickle_load(files[file])
              IN  /\ gc_enabled' = [gc_enabled EXCEPT ![p] = GcAfterLoad(FALSE)]
                  /\ End(p, l1, HitResult(cache.stopped))
                  /\ IF HitResult(cache.stopped) = "StopIteration"
                     THEN UNCHANGED data
                     ELSE data' = [data EXCEPT ![p] = Merge(data[p], cache.data)]

\* process_unlink that clears every entry of the record's identity value
process_unlink_identity(p) ==
  /\ pc[p] = "unlink"
  /\ UNCHANGED <<force, source_mtime, modules, chain_info, gc_enabled, data, memo>>
  /\ LET file == loc[p].file
     IN  IF file \in DOMAIN files
         THEN /\ files' = [f \in {g \in DOMAIN files : g[1] # file[1]} |-> files[f]]
              /\ pc' = [pc EXCEPT ![p] = "run"]
              /\ loc' = [loc EXCEPT ![p].deleted = TRUE]
         ELSE /\ End(p, loc[p], "FileNotFoundError")
              /\ UNCHANGED files

\* process_unlink that takes the record for served once the file is gone
process_unlink_served(p) ==
  /\ pc[p] = "unlink"
  /\ UNCHANGED <<force, source_mtime, modules, chain_info, gc_enabled, data, memo>>
  /\ LET file == loc[p].file
     IN  IF file \in DOMAIN files
         THEN /\ files' = [f \in DOMAIN files \ {file} |-> files[f]]
              /\ End(p, [loc[p] EXCEPT !.deleted = TRUE], "returned")
         ELSE /\ End(p, loc[p], "FileNotFoundError")
              /\ UNCHANGED files

\* line 309: os.unlink(file), in the handler of EOFError
process_unlink(p) ==
  /\ pc[p] = "unlink"
  /\ UNCHANGED <<force, source_mtime, modules, chain_info, gc_enabled, data, memo>>
  /\ LET file == loc[p].file
     IN  IF file \in DOMAIN files
         THEN /\ files' = [f \in DOMAIN files \ {file} |-> files[f]]
              /\ pc' = [pc EXCEPT ![p] = "run"]
              /\ loc' = [loc EXCEPT ![p].deleted = TRUE]
         ELSE /\ End(p, loc[p], "FileNotFoundError")
              /\ UNCHANGED files

\* lines 230-245: the entry _process builds around the record
BuildEntry(rec, stop, info) ==
  [data |-> rec, stopped |-> stop,
   chain_repr |-> info.chain_repr, chain_mtime |-> info.chain_mtime]

\* Catches with a bare except clause
CatchesAll(outcome) == TRUE

\* lines 231-234: what the pipeline raised and _process catches
Catches(outcome) == outcome = "stop"

\* lines 310-313: _process runs the wrapped pipeline and catches StopIteration
process_run(p) ==
  /\ pc[p] = "run"
  /\ UNCHANGED <<files, force, source_mtime, modules, chain_info, gc_enabled, memo>>
  /\ LET run == ChainProcess(modules[p], data[p])
         stop == run.outcome # "ok" /\ Catches(run.outcome)
         l1 == [loc[p] EXCEPT !.invoked = TRUE, !.outcome = run.outcome,
                              !.stop = stop,
                              !.cache = BuildEntry(run.data, stop, chain_info[p])]
     IN  /\ data' = [data EXCEPT ![p] = run.data]
         /\ IF run.outcome # "ok" /\ ~Catches(run.outcome)
            THEN End(p, [l1 EXCEPT !.cache = NoEntry], "ChainError")
            ELSE /\ pc' = [pc EXCEPT ![p] = "write"]
                 /\ loc' = [loc EXCEPT ![p] = l1]

\* line 314: open(file, 'wb') creates the file or truncates it
process_open(p) ==
  /\ pc[p] = "write"
  /\ files' = (loc[p].file :> <<>>) @@ files
  /\ pc' = [pc EXCEPT ![p] = "dump"]
  /\ memo' = [f \in DOMAIN memo \ {loc[p].file} |-> memo[f]]
  /\ UNCHANGED <<force, source_mtime, modules, chain_info, gc_enabled, data, loc>>

\* lines 315-320: what the call does after the write; the code ends here
\* and returns, whatever `stop` is
AfterWrite(stop) == "returned"

\* lines 315-320: pickle.dump(cache, f), chmod, and the end of the call
process_dump(p) ==
  /\ pc[p] = "dump"
  /\ files' = (loc[p].file :> pickle_dump(loc[p].cache)) @@ files
  /\ memo' = (loc[p].file :> [input |-> loc[p].input, final |-> data[p],
                               modules |-> modules[p]]) @@ memo
  /\ End(p, [loc[p] EXCEPT !.wrote = TRUE], AfterWrite(loc[p].stop))
  /\ UNCHANGED <<force, source_mtime, modules, chain_info, gc_enabled, data>>

\* the OS process of p dies in the middle of a call and is started again:
\* whatever it did to the directory stays
kill(p) ==
  /\ pc[p] \notin {"idle", "done"}
  /\ pc' = [pc EXCEPT ![p] = "idle"]
  /\ loc' = [loc EXCEPT ![p] = IdleLoc]
  /\ data' = [data EXCEPT ![p] = <<>>]
  /\ gc_enabled' = [gc_enabled EXCEPT ![p] = TRUE]
  /\ chain_info' = [chain_info EXCEPT ![p] = NewChainInfo(modules[p])]
  /\ UNCHANGED <<files, force, source_mtime, modules, memo>>

\* the caller has seen the call end and holds the record no longer
finish(p) ==
  /\ pc[p] = "done"
  /\ pc' = [pc EXCEPT ![p] = "idle"]
  /\ loc' = [loc EXCEPT ![p] = IdleLoc]
  /\ data' = [data EXCEPT ![p] = <<>>]
  /\ UNCHANGED <<files, force, source_mtime, modules, chain_info, gc_enabled, memo>>

\* a unit is appended to the engine's chain between two calls (the list of
\* units of the wrapped pipeline is open to its owner); nothing tells the
\* engine's fingerprint
add(p) ==
  /\ pc[p] = "idle"
  /\ Len(modules[p]) < MaxUnits
  /\ modules' = [modules EXCEPT ![p] = Append(@, Halt)]
  /\ UNCHANGED <<files, force, source_mtime, chain_info, gc_enabled, pc, data, loc, memo>>

\* the source file of the class of the first unit of p's chain is edited
touch(p) ==
  /\ pc[p] = "idle"
  /\ modules[p] # <<>>
  /\ source_mtime[Head(modules[p])[2]] # EditTime
  /\ source_mtime' = [source_mtime EXCEPT ![Head(modules[p])[2]] = EditTime]
  /\ UNCHANGED <<files, force, modules, chain_info, gc_enabled, pc, data, loc,
                 memo>>

\* the program of p ends between two calls and is started again: a new
\* engine is constructed with the chain
restart(p) ==
  /\ pc[p] = "idle"
  /\ chain_info' = [chain_info EXCEPT ![p] = NewChainInfo(modules[p])]
  /\ chain_info'[p] # chain_info[p]
  /\ UNCHANGED <<files, force, source_mtime, modules, gc_enabled, pc, data,
                 loc, memo>>

\* no other process is inside a call
Solo(p) == \A q \in Procs \ {p} : pc[q] = "idle"

\* a caller calls process(rec) while no other call is running
call(p) == Solo(p) /\ \E rec \in Records : process_begin(p, rec)

\* a caller calls process(rec) at any time
call_concurrently(p) == \E rec \in Records : process_begin(p, rec)

Step(p) ==
  \/ process_read(p)
  \/ process_unlink(p)
  \/ process_run(p)
  \/ process_open(p)
  \/ process_dump(p)
  \/ finish(p)
  \/ kill(p)

Next == \E p \in Procs : call(p) \/ Step(p)

\* one call at a time
Spec == Init /\ [][Next]_vars

NextConcurrent == \E p \in Procs : call_concurrently(p) \/ Step(p)

\* processes without locking share the directory and run the same chain, so
\* that equal identity values meet at one key
InitConcurrent == Init /\ modules[1] = modules[2] /\ modules[1] # <<>>

SpecConcurrent == InitConcurrent /\ [][NextConcurrent]_vars

\* the owner of engine p calls hash_chain()
hash_chain_call(p) ==
  /\ pc[p] = "idle"
  /\ chain_info' = [chain_info EXCEPT ![p] = hash_chain(modules[p], chain_info[p])]
  /\ pc' = [pc EXCEPT ![p] = "hashed"]
  /\ UNCHANGED <<files, force, source_mtime, modules, gc_enabled, data, loc, memo>>

\* what the owner of an engine does to it between two calls
Evolve(p) ==
  \/ add(p)
  \/ touch(p)
  \/ restart(p)

\* the engines that are called and changed by their owner between calls;
\* the other engines stay as they were constructed and rest
Evolving == {1}

\* the caller of such an engine follows the records of one identity value
\* through the changes (and records without any)
call_one(p) ==
  /\ Solo(p)
  /\ \E rec \in Records :
       /\ data_key \in DOMAIN rec => rec[data_key] = 1
       /\ process_begin(p, rec)

NextEvolving == \E p \in Evolving : call_one(p) \/ Step(p) \/ Evolve(p)

\* an engine whose chain and whose units' sources change after construction:
\* it starts with a chain of one unit
InitEvolving ==
  /\ Init
  /\ \A p \in Procs : modules[p] = <<Put(0, 1)>>
  /\ \A p \in Procs \ Evolving : ~force[p]

SpecEvolving == InitEvolving /\ [][NextEvolving]_vars

\* hash_chain on its own: the engines were constructed with the chain
\* `before`, which has become the chain `now` since
InitHashChain ==
  /\ files = <<>>
  /\ force = [p \in Procs |-> FALSE]
  /\ source_mtime = [cls \in Classes |-> FirstMtime(cls)]
  /\ \E before, now \in Chains :
       /\ modules = [p \in Procs |-> now]
       /\ chain_info = [p \in Procs |-> NewChainInfo(before)]
  /\ gc_enabled = [p \in Procs |-> TRUE]
  /\ pc = [p \in Procs |-> "idle"]
  /\ data = [p \in Procs |-> <<>>]
  /\ loc = [p \in Procs |-> IdleLoc]
  /\ memo = <<>>

NextHashChain == \E p \in Evolving : hash_chain_call(p)

SpecHashChain == InitHashChain /\ [][NextHashChain]_vars

(***************************************************************************)
(* Claims.                                                                 *)
(***************************************************************************)
Done(p) == pc[p] = "done"

\* the call of p found an intact entry at its key when it began
FoundIntact(p) == loc[p].existed /\ ~EOFError(loc[p].before)

\* the call of p found a file of zero bytes at its key when it began
FoundTruncated(p) == loc[p].existed /\ EOFError(loc[p].before)

\* the entry that the call of p has to persist, given what it did
EntryOf(p) == BuildEntry(data[p], loc[p].outcome = "stop", chain_info[p])

\* C1: when the wrapped pipeline signals early termination during a miss or
\* a forced bypass, the call ends with an entry stopped=true persisted at the
\* record's key and with the early termination signalled to its caller.
C1_StopPersistedThenSignalled ==
  \A p \in Procs :
    Done(p) /\ loc[p].outcome = "stop" =>
      /\ loc[p].wrote
      /\ loc[p].file \in DOMAIN files
      /\ ~EOFError(files[loc[p].file])
      /\ pickle_load(files[loc[p].file]).stopped
      /\ loc[p].result = "StopIteration"

\* C2: with force false and an intact entry with stopped=true at the
\* record's key, the call signals early termination to its caller, never
\* invokes the wrapped pipeline and leaves the entry as it was.
C2_StoppedHitReplays ==
  \A p \in Procs :
    pc[p] # "idle" /\ ~force[p] /\ FoundIntact(p)
      /\ pickle_load(loc[p].before).stopped =>
        /\ ~loc[p].invoked /\ ~loc[p].wrote /\ ~loc[p].deleted
        /\ loc[p].file \in DOMAIN files
        /\ files[loc[p].file] = loc[p].before
        /\ Done(p) => loc[p].result = "StopIteration" /\ data[p] = loc[p].input

C2_Witness ==
  \E p \in Procs :
    /\ Done(p) /\ ~force[p] /\ FoundIntact(p)
    /\ pickle_load(loc[p].before).stopped
    /\ loc[p].read
    /\ loc[p].result = "StopIteration"

\* the call of p was a hit on the entry that an earlier call wrote for an
\* equal input record under the same chain
SecondCall(p) ==
  /\ Done(p) /\ ~force[p] /\ loc[p].read /\ ~loc[p].eof
  /\ loc[p].result \in {"returned", "StopIteration"}
  /\ loc[p].file \in DOMAIN memo
  /\ memo[loc[p].file].input = loc[p].input
  /\ memo[loc[p].file].modules = modules[p]

\* C3 as stated: a second call on a fresh record equal to the first call's
\* input ends with the record contents the first call left, whatever the
\* chain does.
C3_SecondCallEqualsFirst ==
  \A p \in Procs : SecondCall(p) => data[p] = memo[loc[p].file].final

\* C3 amended: the second call ends with the first call's final contents
\* laid over its own input when the chain ran to its end, and with its input
\* unchanged when the chain stopped early; the two records are equal when
\* the chain ran to its end and removed no field.
C3_SecondCallMergesFirst ==
  \A p \in Procs :
    SecondCall(p) =>
      LET first == memo[loc[p].file]
          stopped == pickle_load(files[loc[p].file]).stopped
      IN  /\ stopped => data[p] = loc[p].input
          /\ ~stopped =>
               /\ DOMAIN data[p] = DOMAIN first.final \cup DOMAIN loc[p].input
               /\ \A f \in DOMAIN first.final : data[p][f] = first.final[f]
               /\ \A f \in DOMAIN loc[p].input \ DOMAIN first.final :
                    data[p][f] = loc[p].input[f]
          /\ ~stopped /\ DOMAIN loc[p].input \subseteq DOMAIN first.final =>
               data[p] = first.final

C3_Witness ==
  \E p \in Procs :
    /\ SecondCall(p)
    /\ loc[p].result = "returned"
    /\ data[p] = memo[loc[p].file].final
    /\ data[p] # loc[p].input

\* C4: once an entry is persisted at a key, a call with force false on a
\* record of that key, the entry being intact, never invokes the wrapped
\* pipeline and neither writes nor deletes the entry: it only reads it.
C4_HitOnlyReads ==
  \A p \in Procs :
    pc[p] # "idle" /\ ~force[p] /\ FoundIntact(p) =>
      /\ pc[p] \in {"read", "done"}
      /\ ~loc[p].invoked /\ ~loc[p].wrote /\ ~loc[p].deleted
      /\ loc[p].file \in DOMAIN files
      /\ files[loc[p].file] = loc[p].before
      /\ Done(p) => loc[p].read /\ loc[p].result \in {"returned", "StopIteration"}

C4_Witness ==
  \E p \in Procs :
    /\ Done(p) /\ ~force[p] /\ FoundIntact(p)
    /\ loc[p].file \in DOMAIN memo
    /\ loc[p].read /\ loc[p].result = "returned"
    /\ data[p] # loc[p].input

\* C5: with force false and an entry of zero bytes at the record's key, the
\* call deletes the entry, runs the wrapped pipeline and raises no
\* end-of-data error; when the pipeline hands the record back (it ran to its
\* end or stopped early) a fresh entry stands at the same key.
C5_TruncatedEntryRecovered ==
  \A p \in Procs :
    Done(p) /\ ~force[p] /\ FoundTruncated(p) =>
      /\ loc[p].read /\ loc[p].eof
      /\ loc[p].deleted
      /\ loc[p].invoked
      /\ loc[p].result \in {"returned", "StopIteration", "ChainError"}
      /\ loc[p].outcome \in {"ok", "stop"} =>
           /\ loc[p].wrote
           /\ loc[p].file \in DOMAIN files
           /\ files[loc[p].file] = pickle_dump(EntryOf(p))

C5_Witness ==
  \E p \in Procs :
    /\ Done(p) /\ ~force[p] /\ FoundTruncated(p)
    /\ loc[p].deleted /\ loc[p].invoked /\ loc[p].wrote
    /\ loc[p].result = "returned"
    /\ ~EOFError(files[loc[p].file])

\* C6: with force true and an entry at the record's key, the call never
\* reads the entry, invokes the wrapped pipeline on the record and, when the
\* pipeline hands the record back, leaves the new outcome at that key.
C6_ForceBypassesEntry ==
  \A p \in Procs :
    Done(p) /\ force[p] /\ loc[p].existed =>
      /\ ~loc[p].read /\ ~loc[p].deleted
      /\ loc[p].invoked
      /\ data[p] = ChainProcess(modules[p], loc[p].input).data
      /\ loc[p].outcome \in {"ok", "stop"} =>
           /\ loc[p].wrote
           /\ loc[p].file \in DOMAIN files
           /\ files[loc[p].file] = pickle_dump(EntryOf(p))

C6_Witness ==
  \E p \in Procs :
    /\ Done(p) /\ force[p] /\ FoundIntact(p)
    /\ loc[p].invoked /\ loc[p].wrote
    /\ files[loc[p].file] # loc[p].before

\* C7: when a call that attempted to read an entry returns or raises, the
\* garbage collector of its process is enabled.
C7_GcEnabledAfterRead ==
  \A p \in Procs : Done(p) /\ loc[p].read => gc_enabled[p]

\* the cache keys of engines p and q differ for every identity value
KeysDiffer(p, q) ==
  \A d \in Ids :
    get_cache_file([f \in {data_key} |-> d], chain_info[p])
      # get_cache_file([f \in {data_key} |-> d], chain_info[q])

\* the call of p used an entry that an engine with the chain `chain` wrote
LoadedFrom(p, chain) ==
  /\ Done(p) /\ loc[p].read /\ ~loc[p].eof
  /\ loc[p].file \in DOMAIN memo
  /\ memo[loc[p].file].modules = chain

C9_DeletionThenRewrite ==
  \A p \in Procs :
    /\ pc[p] # "idle" /\ loc[p].existed /\ ~loc[p].deleted =>
         loc[p].file \in DOMAIN files
    /\ loc[p].deleted => loc[p].eof /\ FoundTruncated(p)
    /\ Done(p) /\ loc[p].deleted =>
         loc[p].wrote /\ loc[p].file \in DOMAIN files

\* C9 amended: an entry is deleted only when a read found it corrupted, and
\* the call that deleted it has rewritten an entry at the key when it ends,
\* unless the wrapped pipeline raised an error other than early termination:
\* then the call raises that error and the key is left without an entry.
C9_DeletionThenRewriteOrChainError ==
  \A p \in Procs :
    /\ pc[p] # "idle" /\ loc[p].existed /\ ~loc[p].deleted =>
         loc[p].file \in DOMAIN files
    /\ loc[p].deleted => loc[p].eof /\ FoundTruncated(p)
    /\ Done(p) /\ loc[p].deleted =>
         \/ /\ loc[p].wrote
            /\ loc[p].file \in DOMAIN files
            /\ files[loc[p].file] = pickle_dump(EntryOf(p))
         \/ /\ loc[p].outcome = "error"
            /\ loc[p].result = "ChainError"
            /\ loc[p].file \notin DOMAIN files

C9_Witness ==
  \E p \in Procs :
    /\ Done(p) /\ loc[p].deleted /\ loc[p].wrote
    /\ loc[p].file \in DOMAIN files

\* C10: among processes that share the directory without locking, no call
\* raises to its caller anything but the missing-identity error, the early
\* termination or an error of the wrapped pipeline.
C10_RacingCallsRecover ==
  \A p \in Procs :
    Done(p) =>
      loc[p].result \in {"returned", "KeyError", "StopIteration", "ChainError"}

\* the fingerprint of engine p is behind its chain's unit count
CountChanged(p) == Len(modules[p]) # chain_info[p].chain_len

\* C11: when the chain's unit count has changed since the fingerprint was
\* last computed, the next call derives its cache key from the structural
\* hash of the current chain, and the entry it persists carries the current
\* chain's representation and modification time.
C11_KeyFromRecomputedFingerprint ==
  [][\A p \in Procs :
       /\ (/\ CountChanged(p)
           /\ pc[p] = "idle" /\ pc'[p] # "idle"
           /\ data_key \in DOMAIN data'[p])
          => loc'[p].file = <<sha256(pickle(PyInt(data'[p][data_key]))),
                              _get_chain_hash(modules[p])>>
       /\ (CountChanged(p) /\ pc[p] = "dump" /\ pc'[p] = "done")
          => LET entry == pickle_load(files'[loc[p].file])
             IN  /\ entry.chain_repr = _get_chain_repr(modules[p])
                 /\ entry.chain_mtime = _get_chain_mtime(modules[p])]_vars

\* C12: a call on a record that lacks the identity field ends at once with
\* the missing-identity error (KeyError): the wrapped pipeline is not
\* invoked, and the record and every cache entry are as before the call.
C12_MissingIdentityFails ==
  [][\A p \in Procs :
       (pc[p] = "idle" /\ pc'[p] # "idle" /\ data_key \notin DOMAIN data'[p])
         => /\ pc'[p] = "done"
            /\ loc'[p].result = "KeyError"
            /\ ~loc'[p].invoked /\ ~loc'[p].read
            /\ ~loc'[p].wrote /\ ~loc'[p].deleted
            /\ data'[p] = loc'[p].input
            /\ files' = files]_vars

C12_Witness ==
  \E p \in Procs :
    /\ Done(p) /\ data_key \notin DOMAIN loc[p].input
    /\ loc[p].result = "KeyError"
    /\ data[p] = loc[p].input
    /\ files # <<>>

\* C13: when the wrapped pipeline raises an error other than the early
\* termination during a miss or a forced bypass, the call ends with that
\* error raised to its caller and has written nothing: the key holds what it
\* held when the pipeline was invoked.
C13_PipelineErrorPropagates ==
  \A p \in Procs :
    loc[p].outcome = "error" =>
      /\ Done(p)
      /\ loc[p].invoked
      /\ loc[p].result = "ChainError"
      /\ ~loc[p].wrote
      /\ IF loc[p].existed /\ ~loc[p].deleted
         THEN loc[p].file \in DOMAIN files /\ files[loc[p].file] = loc[p].before
         ELSE loc[p].file \notin DOMAIN files

C13_Witness ==
  \E p \in Procs :
    /\ Done(p) /\ loc[p].outcome = "error" /\ loc[p].result = "ChainError"
    /\ force[p] /\ FoundIntact(p)
    /\ files[loc[p].file] = loc[p].before

\* the call of p found an intact entry, not stopped, written under another
\* modification time of the chain's sources than the engine's
FoundStale(p) ==
  /\ FoundIntact(p)
  /\ ~pickle_load(loc[p].before).stopped
  /\ pickle_load(loc[p].before).chain_mtime # chain_info[p].chain_mtime

\* C14: on a hit whose entry stores a chain modification time other than
\* the engine's, the call still uses the entry: the wrapped pipeline is not
\* invoked, the entry stays in place as it was, and the call returns with
\* the entry's data merged into the record.
C14_StaleEntryStillUsed ==
  \A p \in Procs :
    pc[p] # "idle" /\ ~force[p] /\ FoundStale(p) =>
      /\ pc[p] \in {"read", "done"}
      /\ ~loc[p].invoked /\ ~loc[p].wrote /\ ~loc[p].deleted
      /\ loc[p].file \in DOMAIN files
      /\ files[loc[p].file] = loc[p].before
      /\ Done(p) =>
           LET retrieved_data == pickle_load(loc[p].before).data
           IN  /\ loc[p].result = "returned"
               /\ DOMAIN data[p] = DOMAIN loc[p].input \cup DOMAIN retrieved_data
               /\ \A f \in DOMAIN retrieved_data : data[p][f] = retrieved_data[f]
               /\ \A f \in DOMAIN loc[p].input \ DOMAIN retrieved_data :
                    data[p][f] = loc[p].input[f]

C14_Witness ==
  \E p \in Procs :
    /\ Done(p) /\ ~force[p] /\ FoundStale(p)
    /\ loc[p].read /\ loc[p].result = "returned"
    /\ data[p] # loc[p].input

\* cache_key_for(record) of the call of p under the engine's structural hash
OwnKey(p) ==
  <<sha256(pickle(PyInt(loc[p].input[data_key]))), chain_info[p].chain_hash>>

\* C15: a step of a call changes (creates, rewrites, deletes) no entry but
\* the one at the key of the call's record under the engine's structural
\* hash, which is the one entry the call reads; every other entry, those of
\* the same identity value under another structural hash included, stays as
\* it is.
C15_OnlyOwnEntryTouched ==
  [][/\ \A f \in DOMAIN files \cup DOMAIN files' :
          \/ f \in DOMAIN files /\ f \in DOMAIN files' /\ files'[f] = files[f]
          \/ \E p \in Procs :
               pc[p] \in {"unlink", "write", "dump"} /\ f = OwnKey(p)
      /\ \A p \in Procs :
           pc'[p] \in {"read", "unlink", "run", "write", "dump"} =>
             loc'[p].file = OwnKey(p)']_vars

C15_Witness ==
  \E p \in Procs :
    /\ Done(p) /\ loc[p].deleted /\ loc[p].wrote
    /\ loc[p].file = OwnKey(p)
    /\ \E f \in DOMAIN files :
         /\ f # loc[p].file
         /\ f[1] = loc[p].file[1]
         /\ f \in DOMAIN memo
         /\ ~EOFError(files[f])

\* C16: engines whose chains' units are in the same state have the same
\* structural hash, whatever the order in which the dictionaries and sets
\* of the units hand out their members.
C16_HashIgnoresIterationOrder ==
  \A p, q \in Procs :
    SameState(modules[p], modules[q]) =>
      _get_chain_hash(modules[p]) = _get_chain_hash(modules[q])

\* the call of p was a hit on an entry with stopped=false and has returned
HitReturned(p) ==
  /\ Done(p) /\ ~force[p] /\ FoundIntact(p) /\ loc[p].read
  /\ ~pickle_load(loc[p].before).stopped

\* C17: after a hit with stopped=false the record holds every field of
\* result_data with its cached value, every field it had that is not in
\* result_data with the value from before the call, and no other field.
C17_HitMergesResultData ==
  \A p \in Procs :
    HitReturned(p) =>
      LET result_data == pickle_load(loc[p].before).data
      IN  /\ loc[p].result = "returned"
          /\ DOMAIN data[p] = DOMAIN loc[p].input \cup DOMAIN result_data
          /\ \A f \in DOMAIN result_data : data[p][f] = result_data[f]
          /\ \A f \in DOMAIN loc[p].input \ DOMAIN result_data :
               data[p][f] = loc[p].input[f]

C17_Witness ==
  \E p \in Procs :
    /\ HitReturned(p)
    /\ \E f \in DOMAIN loc[p].input \cap DOMAIN pickle_load(loc[p].before).data :
         /\ loc[p].input[f] # pickle_load(loc[p].before).data[f]
         /\ data[p][f] = pickle_load(loc[p].before).data[f]

\* C18: a call of hash_chain leaves the whole fingerprint as it is when the
\* chain has as many units as at the last computation, whatever has changed
\* in the chain, and computes all four fields anew from the chain when the
\* number differs.
C18_HashChainOnCountChange ==
  [][\A p \in Procs :
       pc[p] = "idle" /\ pc'[p] = "hashed" =>
         IF Len(modules[p]) = chain_info[p].chain_len
         THEN chain_info'[p] = chain_info[p]
         ELSE /\ chain_info'[p].chain_len = Len(modules[p])
              /\ chain_info'[p].chain_hash = _get_chain_hash(modules[p])
              /\ chain_info'[p].chain_repr = _get_chain_repr(modules[p])
              /\ chain_info'[p].chain_mtime = _get_chain_mtime(modules[p])]_vars

C18_Witness ==
  \E p \in Procs :
    /\ pc[p] = "hashed"
    /\ Len(modules[p]) = chain_info[p].chain_len
    /\ chain_info[p].chain_hash # None
    /\ chain_info[p].chain_hash # _get_chain_hash(modules[p])
    /\ chain_info[p].chain_mtime # _get_chain_mtime(modules[p])

\* the object graph of Loop(n) unfolded into a tree of d objects, with
\* `below` in the place of the reference held by the innermost object
RECURSIVE Unfold(_, _, _)
Unfold(n, d, below) ==
  PyObj(Loop(n)[2],
        << <<<<"m", "e">>, IF d = 1 THEN below ELSE Unfold(n, d - 1, below)>>,
           <<<<"v">>, PyInt(n)>> >>)

C20_HashDefinedForEveryChain ==
  \A p \in Procs :
    pc[p] # "idle" /\ data_key \in DOMAIN loc[p].input =>
      /\ chain_info[p].chain_hash # None
      /\ loc[p].result # "TypeError"

====
